---------------------------- MODULE Spec2Model ----------------------------
(***************************************************************************)
(* A model of libcacard/vreader.c: the reference-counted reader object,    *)
(* the global reader registry (a hand-written doubly linked list guarded   *)
(* by vreader_list_mutex), the card session calls and the card events.     *)
(*                                                                         *)
(* Every C function is modelled once, as a frame on a per-thread call      *)
(* stack.  A frame is a record [fn, pc, locals...]; one action is one      *)
(* step of one function between two scheduling points (a lock             *)
(* acquisition, a call, a return, an unlocked shared read).  Memory that   *)
(* was freed keeps its last contents and may be handed out again by the    *)
(* next allocation; a step that touches freed memory may also trap.        *)
(***************************************************************************)
EXTENDS Integers, Sequences, FiniteSets, TLC

\* ------------------------------------------------------------- bounds
NumReaders == 2
NumCards   == 1
MaxEntries == 4
MaxMallocs == 4
MaxLists   == 1
MaxHeld    == 2
MaxId      == 1
MaxCap     == 2
MaxResp    == 2
MaxName    == 2

\* ---------------------------------------------------------- constants
NULL == 0
VREADER_ID_UNASSIGNED == -1

Readers   == 1 .. NumReaders
Cards     == 1 .. NumCards
Entries   == 1 .. MaxEntries
SnapLists == 1 .. MaxLists
Threads   == {1, 2}
Ids       == 1 .. MaxId
\* the names a reader can be given; NULL is no name
Names     == 1 .. MaxName
Bytes     == {1, 2}
\* the status words vcard_apdu_new hands back for a buffer it cannot parse
ParseStatus == {26368, 28160}

VARIABLES
    reference_count,    \* VReader.reference_count
    card,               \* VReader.card
    id,                 \* VReader.id
    name,               \* VReader.name: NULL or the name strdup'ed at vreader_new
    lock,               \* VReader.lock: 0 or the holding thread
    rstate,             \* reader memory: "none" (not yet malloc'ed), "live", "freed"
    private_free_calls, \* how often reader_private_free was called on the reader
    card_ref,           \* VCard reference count (vcard_reference / vcard_free)
    mem,                \* heap cells holding VReaderListEntry structs
    lists,              \* VReaderList structs; index 0 is the static vreader_list
    vreader_list_mutex, \* 0 or the holding thread
    mallocs,            \* how many entries were malloc'ed so far
    stack,              \* per thread: the call stack, innermost frame last
    retval,             \* per thread: the value the last return handed back
    pending,            \* per thread: the API call in progress, or NoCall
    last_call,          \* per thread: the API call that returned last
    held,               \* references to each reader that callers own
    owned,              \* snapshot lists that callers own
    registered,         \* the readers added and not since removed, in the order added
    event,              \* the event last handed to vevent_queue_vevent
    fault,              \* the process trapped or aborted
    ub                  \* a step used freed memory and went through on its stale contents

readerVars == <<reference_count, card, id, lock, rstate, private_free_calls, name>>
heapVars   == <<mem, lists, vreader_list_mutex, mallocs>>
callVars   == <<stack, retval>>
userVars   == <<pending, last_call, held, owned, registered>>
vars == <<readerVars, card_ref, heapVars, callVars, userVars, event, fault, ub>>

NoCall   == [op |-> "none"]
NoEvent  == [kind |-> "none", reader |-> NULL, card |-> NULL]
FreeCell == [next |-> NULL, prev |-> NULL, reader |-> NULL, alloc |-> FALSE, used |-> FALSE]

\* --------------------------------------------------------- call stack
Top(t) == stack[t][Len(stack[t])]

IsReader(r) == r \in Readers

IsEntry(e) == e \in Entries

\* the next step of thread t reads or writes a reader that was freed
DanglingReader(t) ==
    LET f == Top(t) IN
    CASE f.fn \in {"vreader_reference", "vreader_free", "vreader_get_card", "vreader_set_id",
                   "vreader_insert_card", "vreader_queue_card_event"}
             -> IsReader(f.reader) /\ rstate[f.reader] = "freed"
      [] f.fn \in {"vreader_get_reader_by_id", "vreader_get_reader_by_name"} /\ f.pc = "cmp"
             -> IsReader(retval[t].ptr) /\ rstate[retval[t].ptr] = "freed"
      [] OTHER -> FALSE

\* the next step of thread t reads, writes or frees an entry that was freed
DanglingEntry(t) ==
    LET f == Top(t)
        gone(e) == IsEntry(e) /\ ~mem[e].alloc
    IN
    CASE f.fn \in {"vreader_list_entry_delete", "vreader_list_get_reader"} -> gone(f.entry)
      [] f.fn = "vreader_list_delete" -> gone(f.cur)
      [] f.fn = "vreader_copy_list" /\ f.pc = "queue" -> gone(f.cur)
      [] f.fn \in {"vreader_get_reader_by_id", "vreader_get_reader_by_name"} /\ f.pc = "next"
             -> gone(f.cur)
      [] f.fn = "vreader_remove_reader" /\ f.pc = "loop" -> gone(f.cur)
      [] f.fn = "vreader_remove_reader" /\ f.pc = "dequeue"
             -> \/ gone(f.cur)
                \/ /\ IsEntry(f.cur)
                   /\ mem[f.cur].next # NULL
                   /\ mem[f.cur].prev # NULL
                   /\ (gone(mem[f.cur].next) \/ gone(mem[f.cur].prev))
      [] f.fn = "vreader_add_reader" /\ f.pc = "queue"
             -> lists[0].head # NULL /\ gone(lists[0].tail)
      [] OTHER -> FALSE

\* thread t is at label p of function f and takes its step; a step that uses
\* freed memory is undefined behaviour, and is recorded
At(t, f, p) ==
    /\ ~fault
    /\ stack[t] # <<>>
    /\ Top(t).fn = f
    /\ Top(t).pc = p
    /\ ub' = (ub \/ DanglingReader(t) \/ DanglingEntry(t))

\* replace the innermost frame
Step(t, fr) == [stack EXCEPT ![t] = [@ EXCEPT ![Len(@)] = fr]]

\* the innermost frame becomes fr and calls callee
Invoke(t, fr, callee) == [stack EXCEPT ![t] = Append([@ EXCEPT ![Len(@)] = fr], callee)]

\* the innermost frame returns
Leave(t) == [stack EXCEPT ![t] = SubSeq(@, 1, Len(@) - 1)]

\* what a function that returns a pointer, or nothing, leaves as its value
Ptr(p) == [ptr |-> p]

\* the innermost frame returns v
Return(t, v) ==
    /\ stack' = Leave(t)
    /\ retval' = [retval EXCEPT ![t] = v]

Min(a, b) == IF a < b THEN a ELSE b

\* ------------------------------------------------- the card collaborator
\* vcard_reference(card): NULL-safe, one more counted reference
vcard_reference(refs, c) == IF c = NULL THEN refs ELSE [refs EXCEPT ![c] = @ + 1]

\* vcard_free(card): NULL-safe, one reference fewer
vcard_free(refs, c) == IF c = NULL THEN refs ELSE [refs EXCEPT ![c] = @ - 1]

\* vcard_make_response(status): the two status bytes SW1 SW2
vcard_make_response(status) == << status \div 256, status % 256 >>

\* the send buffers, by what vcard_apdu_new makes of them
SendBufs == {[apdu |-> TRUE, status |-> 0]} \cup {[apdu |-> FALSE, status |-> w] : w \in ParseStatus}

\* every response a card may produce
Responses == UNION { [1 .. n -> Bytes] : n \in 0 .. MaxResp }


\* the ATR a card answers a reset with
CardAtr == << 1, 2, 1 >>

\* vcard_get_atr(card, atr, &len): at most len bytes of the ATR, len set to the count
vcard_get_atr(len) ==
    [atr |-> SubSeq(CardAtr, 1, Min(len, Len(CardAtr))), len |-> Min(len, Len(CardAtr))]

\* ------------------------------------------------------ the reader object
\* vreader_new: the reader is malloc'ed and every field is set
vreader_new(t) ==
    /\ At(t, "vreader_new", "new")
    /\ LET r == Top(t).reader IN
       /\ rstate' = [rstate EXCEPT ![r] = "live"]
       /\ reference_count' = [reference_count EXCEPT ![r] = 1]
       /\ card' = [card EXCEPT ![r] = NULL]
       /\ id' = [id EXCEPT ![r] = VREADER_ID_UNASSIGNED]
       /\ name' = [name EXCEPT ![r] = Top(t).name]
       /\ lock' = [lock EXCEPT ![r] = 0]
       /\ Return(t, Ptr(r))
    /\ UNCHANGED <<private_free_calls, card_ref, heapVars, userVars, event, fault>>

\* vreader_reference, up to vreader_lock: NULL is handed back untouched
vreader_reference_lock(t) ==
    /\ At(t, "vreader_reference", "lock")
    /\ LET f == Top(t) IN
       IF f.reader = NULL
       THEN /\ Return(t, Ptr(NULL))
            /\ UNCHANGED lock
       ELSE /\ lock[f.reader] = 0
            /\ lock' = [lock EXCEPT ![f.reader] = t]
            /\ stack' = Step(t, [f EXCEPT !.pc = "inc"])
            /\ UNCHANGED retval
    /\ UNCHANGED <<reference_count, card, id, rstate, private_free_calls, name>>
    /\ UNCHANGED <<card_ref, heapVars, userVars, event, fault>>

\* vreader_reference that returns without vreader_unlock
vreader_reference_inc_locked(t) ==
    /\ At(t, "vreader_reference", "inc")
    /\ LET f == Top(t) IN
       /\ reference_count' = [reference_count EXCEPT ![f.reader] = @ + 1]
       /\ Return(t, Ptr(f.reader))
    /\ UNCHANGED <<card, id, lock, rstate, private_free_calls, name>>
    /\ UNCHANGED <<card_ref, heapVars, userVars, event, fault>>

\* vreader_reference: reference_count++ under the lock, unlock, return reader
vreader_reference_inc(t) ==
    /\ At(t, "vreader_reference", "inc")
    /\ LET f == Top(t) IN
       /\ reference_count' = [reference_count EXCEPT ![f.reader] = @ + 1]
       /\ lock' = [lock EXCEPT ![f.reader] = 0]
       /\ Return(t, Ptr(f.reader))
    /\ UNCHANGED <<card, id, rstate, private_free_calls, name>>
    /\ UNCHANGED <<card_ref, heapVars, userVars, event, fault>>

\* vreader_free, up to vreader_lock
vreader_free_lock(t) ==
    /\ At(t, "vreader_free", "lock")
    /\ LET f == Top(t) IN
       IF f.reader = NULL
       THEN /\ Return(t, Ptr(NULL))
            /\ UNCHANGED lock
       ELSE /\ lock[f.reader] = 0
            /\ lock' = [lock EXCEPT ![f.reader] = t]
            /\ stack' = Step(t, [f EXCEPT !.pc = "dec"])
            /\ UNCHANGED retval
    /\ UNCHANGED <<reference_count, card, id, rstate, private_free_calls, name>>
    /\ UNCHANGED <<card_ref, heapVars, userVars, event, fault>>

\* the test of vreader_free: was the count, before the decrement, above 1
StillReferenced(count) == count > 1

\* vreader_free: if (reference_count-- > 1) { unlock; return; }  unlock;
vreader_free_dec(t) ==
    /\ At(t, "vreader_free", "dec")
    /\ LET f == Top(t) IN
       /\ reference_count' = [reference_count EXCEPT ![f.reader] = @ - 1]
       /\ lock' = [lock EXCEPT ![f.reader] = 0]
       /\ IF StillReferenced(reference_count[f.reader])
          THEN Return(t, Ptr(NULL))
          ELSE /\ stack' = Step(t, [f EXCEPT !.pc = "destroy"])
               /\ UNCHANGED retval
    /\ UNCHANGED <<card, id, rstate, private_free_calls, name>>
    /\ UNCHANGED <<card_ref, heapVars, userVars, event, fault>>

\* vreader_free, the count reached zero: the card reference is released, the
\* private data is handed to reader_private_free, the reader is freed
vreader_free_destroy(t) ==
    /\ At(t, "vreader_free", "destroy")
    /\ LET f == Top(t) IN
       /\ card_ref' = vcard_free(card_ref, card[f.reader])
       /\ private_free_calls' = [private_free_calls EXCEPT ![f.reader] = @ + 1]
       /\ rstate' = [rstate EXCEPT ![f.reader] = "freed"]
       /\ Return(t, Ptr(NULL))
    /\ UNCHANGED <<reference_count, card, id, lock, name>>
    /\ UNCHANGED <<heapVars, userVars, event, fault>>

\* vreader_get_card, up to vreader_lock (a NULL reader is dereferenced)
vreader_get_card_lock(t) ==
    /\ At(t, "vreader_get_card", "lock")
    /\ LET f == Top(t) IN
       IF f.reader = NULL
       THEN /\ fault' = TRUE
            /\ UNCHANGED <<lock, stack>>
       ELSE /\ lock[f.reader] = 0
            /\ lock' = [lock EXCEPT ![f.reader] = t]
            /\ stack' = Step(t, [f EXCEPT !.pc = "ref"])
            /\ UNCHANGED fault
    /\ UNCHANGED <<reference_count, card, id, rstate, private_free_calls, name>>
    /\ UNCHANGED <<card_ref, heapVars, retval, userVars, event>>

\* vreader_get_card that returns without vreader_unlock
vreader_get_card_ref_locked(t) ==
    /\ At(t, "vreader_get_card", "ref")
    /\ LET f == Top(t) IN
       /\ card_ref' = vcard_reference(card_ref, card[f.reader])
       /\ Return(t, Ptr(card[f.reader]))
    /\ UNCHANGED <<reference_count, card, id, lock, rstate, private_free_calls, name>>
    /\ UNCHANGED <<heapVars, userVars, event, fault>>

\* vreader_get_card: card = vcard_reference(reader->card); unlock; return card
vreader_get_card_ref(t) ==
    /\ At(t, "vreader_get_card", "ref")
    /\ LET f == Top(t) IN
       /\ card_ref' = vcard_reference(card_ref, card[f.reader])
       /\ lock' = [lock EXCEPT ![f.reader] = 0]
       /\ Return(t, Ptr(card[f.reader]))
    /\ UNCHANGED <<reference_count, card, id, rstate, private_free_calls, name>>
    /\ UNCHANGED <<heapVars, userVars, event, fault>>

\* vreader_card_is_present: VCard *card = vreader_get_card(reader)
vreader_card_is_present_call(t) ==
    /\ At(t, "vreader_card_is_present", "call")
    /\ LET f == Top(t) IN
       stack' = Invoke(t, [f EXCEPT !.pc = "check"],
                       [fn |-> "vreader_get_card", pc |-> "lock", reader |-> f.reader])
    /\ UNCHANGED <<readerVars, card_ref, heapVars, retval, userVars, event, fault>>

\* vreader_card_is_present that answers without vcard_free
vreader_card_is_present_check_kept(t) ==
    /\ At(t, "vreader_card_is_present", "check")
    /\ IF retval[t].ptr = NULL
       THEN Return(t, [status |-> "VREADER_NO_CARD"])
       ELSE Return(t, [status |-> "VREADER_OK"])
    /\ UNCHANGED <<readerVars, card_ref, heapVars, userVars, event, fault>>

\* vreader_card_is_present: NO_CARD without a card, else the reference is dropped
vreader_card_is_present_check(t) ==
    /\ At(t, "vreader_card_is_present", "check")
    /\ IF retval[t].ptr = NULL
       THEN /\ Return(t, [status |-> "VREADER_NO_CARD"])
            /\ UNCHANGED card_ref
       ELSE /\ card_ref' = vcard_free(card_ref, retval[t].ptr)
            /\ Return(t, [status |-> "VREADER_OK"])
    /\ UNCHANGED <<readerVars, heapVars, userVars, event, fault>>

\* vreader_get_id: the unassigned id for a NULL reader
vreader_get_id(r) == IF r = NULL THEN VREADER_ID_UNASSIGNED ELSE id[r]

\* vreader_set_id: no lock is taken
vreader_set_id(t) ==
    /\ At(t, "vreader_set_id", "set")
    /\ LET f == Top(t) IN
       IF f.reader = NULL
       THEN /\ Return(t, [status |-> "VREADER_NO_CARD"])
            /\ UNCHANGED id
       ELSE /\ id' = [id EXCEPT ![f.reader] = f.id]
            /\ Return(t, [status |-> "VREADER_OK"])
    /\ UNCHANGED <<reference_count, card, lock, rstate, private_free_calls, name>>
    /\ UNCHANGED <<card_ref, heapVars, userVars, event, fault>>


\* ------------------------------------------------- card session calls
\* memcpy(dst, src, n): the first n bytes of dst are replaced
memcpy(dst, src, n) == [i \in 1 .. Len(dst) |-> IF i <= n THEN src[i] ELSE dst[i]]

\* vreader_reset: VCard *card = vreader_get_card(reader)
vreader_reset_call(t) ==
    /\ At(t, "vreader_reset", "call")
    /\ LET f == Top(t) IN
       stack' = Invoke(t, [f EXCEPT !.pc = "check"],
                       [fn |-> "vreader_get_card", pc |-> "lock", reader |-> f.reader])
    /\ UNCHANGED <<readerVars, card_ref, heapVars, retval, userVars, event, fault>>

\* vreader_reset: if (card == NULL) return VREADER_NO_CARD
vreader_reset_check(t) ==
    /\ At(t, "vreader_reset", "check")
    /\ LET f == Top(t) IN
       IF retval[t].ptr = NULL
       THEN Return(t, [status |-> "VREADER_NO_CARD", atr |-> f.atr, len |-> f.len,
                       calls |-> f.calls])
       ELSE /\ stack' = Step(t, [f EXCEPT !.pc = "reset", !.card = retval[t].ptr])
            /\ UNCHANGED retval
    /\ UNCHANGED <<readerVars, card_ref, heapVars, userVars, event, fault>>

\* vreader_reset: vcard_reset(card, power); if (atr) vcard_get_atr(card, atr, len)
vreader_reset_reset(t) ==
    /\ At(t, "vreader_reset", "reset")
    /\ LET f == Top(t)
           got == vcard_get_atr(f.len)
       IN IF f.has_atr
          THEN stack' = Step(t, [f EXCEPT !.pc = "free", !.atr = memcpy(f.atr, got.atr, got.len),
                                          !.len = got.len,
                                          !.calls = @ \cup {"vcard_reset", "vcard_get_atr"}])
          ELSE stack' = Step(t, [f EXCEPT !.pc = "free", !.calls = @ \cup {"vcard_reset"}])
    /\ UNCHANGED <<readerVars, card_ref, heapVars, retval, userVars, event, fault>>

\* vreader_reset: vcard_free(card); return VREADER_OK
vreader_reset_free(t) ==
    /\ At(t, "vreader_reset", "free")
    /\ LET f == Top(t) IN
       /\ card_ref' = vcard_free(card_ref, f.card)
       /\ Return(t, [status |-> "VREADER_OK", atr |-> f.atr, len |-> f.len, calls |-> f.calls])
    /\ UNCHANGED <<readerVars, heapVars, userVars, event, fault>>

\* vreader_xfr_bytes: VCard *card = vreader_get_card(reader)
vreader_xfr_bytes_call(t) ==
    /\ At(t, "vreader_xfr_bytes", "call")
    /\ LET f == Top(t) IN
       stack' = Invoke(t, [f EXCEPT !.pc = "check"],
                       [fn |-> "vreader_get_card", pc |-> "lock", reader |-> f.reader])
    /\ UNCHANGED <<readerVars, card_ref, heapVars, retval, userVars, event, fault>>

\* what vreader_xfr_bytes hands back: the status and the caller's buffer and length
XfrReturn(f, status) ==
    [status |-> status, receive_buf |-> f.receive_buf, receive_buf_len |-> f.receive_buf_len,
     response |-> f.response, calls |-> f.calls]

\* a variant of vreader_xfr_bytes_check without the test for a card
vreader_xfr_bytes_check_skipped(t) ==
    /\ At(t, "vreader_xfr_bytes", "check")
    /\ stack' = Step(t, [Top(t) EXCEPT !.pc = "parse", !.card = retval[t].ptr])
    /\ UNCHANGED <<readerVars, card_ref, heapVars, retval, userVars, event, fault>>

\* vreader_xfr_bytes: if (card == NULL) return VREADER_NO_CARD
vreader_xfr_bytes_check(t) ==
    /\ At(t, "vreader_xfr_bytes", "check")
    /\ LET f == Top(t) IN
       IF retval[t].ptr = NULL
       THEN Return(t, XfrReturn(f, "VREADER_NO_CARD"))
       ELSE /\ stack' = Step(t, [f EXCEPT !.pc = "parse", !.card = retval[t].ptr])
            /\ UNCHANGED retval
    /\ UNCHANGED <<readerVars, card_ref, heapVars, userVars, event, fault>>

\* a variant of vreader_xfr_bytes_parse that hands the card whatever was parsed
vreader_xfr_bytes_parse_forward(t) ==
    /\ At(t, "vreader_xfr_bytes", "parse")
    /\ stack' = Step(t, [Top(t) EXCEPT !.pc = "process", !.calls = @ \cup {"vcard_apdu_new"}])
    /\ UNCHANGED <<readerVars, card_ref, heapVars, retval, userVars, event, fault>>

\* vreader_xfr_bytes: apdu = vcard_apdu_new(...); without an apdu the response
\* is vcard_make_response(status) and card_status is VCARD_DONE
vreader_xfr_bytes_parse(t) ==
    /\ At(t, "vreader_xfr_bytes", "parse")
    /\ LET f == Top(t) IN
       IF ~f.send.apdu
       THEN stack' = Step(t, [f EXCEPT !.pc = "copy",
                                       !.response = vcard_make_response(f.send.status),
                                       !.calls = @ \cup {"vcard_apdu_new", "vcard_make_response"}])
       ELSE stack' = Step(t, [f EXCEPT !.pc = "process",
                                       !.calls = @ \cup {"vcard_apdu_new"}])
    /\ UNCHANGED <<readerVars, card_ref, heapVars, retval, userVars, event, fault>>

\* vreader_xfr_bytes: card_status = vcard_process_apdu(card, apdu, &response),
\* the card answers VCARD_DONE with some response
vreader_xfr_bytes_process(t) ==
    /\ At(t, "vreader_xfr_bytes", "process")
    /\ \E resp \in Responses :
          stack' = Step(t, [Top(t) EXCEPT !.pc = "copy", !.response = resp,
                                          !.calls = @ \cup {"vcard_process_apdu"}])
    /\ UNCHANGED <<readerVars, card_ref, heapVars, retval, userVars, event, fault>>

\* vreader_xfr_bytes: the card answers anything but VCARD_DONE and
\* assert(card_status == VCARD_DONE) aborts
vreader_xfr_bytes_assert(t) ==
    /\ At(t, "vreader_xfr_bytes", "process")
    /\ fault' = TRUE
    /\ UNCHANGED <<readerVars, card_ref, heapVars, callVars, userVars, event>>

\* a variant of XfrSize that takes the length of the response for the size
XfrSizeOfResponse(receive_buf_len, b_total_len) == b_total_len

\* int size = MIN(*receive_buf_len, response->b_total_len)
XfrSize(receive_buf_len, b_total_len) == Min(receive_buf_len, b_total_len)

\* vreader_xfr_bytes: the copy into the caller's buffer, the deletes, the
\* release of the card reference, return VREADER_OK
vreader_xfr_bytes_copy(t) ==
    /\ At(t, "vreader_xfr_bytes", "copy")
    /\ LET f == Top(t)
           size == XfrSize(f.receive_buf_len, Len(f.response))
           g == [f EXCEPT !.receive_buf = memcpy(f.receive_buf, f.response, size),
                          !.receive_buf_len = size]
       IN /\ card_ref' = vcard_free(card_ref, f.card)
          /\ Return(t, XfrReturn(g, "VREADER_OK"))
    /\ UNCHANGED <<readerVars, heapVars, userVars, event, fault>>

\* --------------------------------------------------------- card events
\* vreader_queue_card_event reads reader->card twice, without the lock, for
\* the event type and for the card argument; C fixes no order between them
vreader_queue_card_event_read(t) ==
    /\ At(t, "vreader_queue_card_event", "read")
    /\ LET f == Top(t) IN
       \E first \in {"type", "card"} :
          stack' = Step(t, [f EXCEPT !.pc = "emit", !.first = first, !.seen = card[f.reader]])
    /\ UNCHANGED <<readerVars, card_ref, heapVars, retval, userVars, event, fault>>

\* reader->card ? VEVENT_CARD_INSERT : VEVENT_CARD_REMOVE
CardEventType(c) == IF c # NULL THEN "VEVENT_CARD_INSERT" ELSE "VEVENT_CARD_REMOVE"

\* vreader_queue_card_event: the other read, then vevent_queue_vevent(vevent_new(...))
vreader_queue_card_event_emit(t) ==
    /\ At(t, "vreader_queue_card_event", "emit")
    /\ LET f == Top(t)
           ev == IF f.first = "type"
                 THEN [kind |-> CardEventType(f.seen), reader |-> f.reader, card |-> card[f.reader]]
                 ELSE [kind |-> CardEventType(card[f.reader]), reader |-> f.reader, card |-> f.seen]
       IN /\ event' = ev
          /\ Return(t, ev)
    /\ UNCHANGED <<readerVars, card_ref, heapVars, userVars, fault>>

\* vreader_insert_card, up to vreader_lock
vreader_insert_card_lock(t) ==
    /\ At(t, "vreader_insert_card", "lock")
    /\ LET f == Top(t) IN
       IF f.reader = NULL
       THEN /\ fault' = TRUE
            /\ UNCHANGED <<lock, stack>>
       ELSE /\ lock[f.reader] = 0
            /\ lock' = [lock EXCEPT ![f.reader] = t]
            /\ stack' = Step(t, [f EXCEPT !.pc = "swap"])
            /\ UNCHANGED fault
    /\ UNCHANGED <<reference_count, card, id, rstate, private_free_calls, name>>
    /\ UNCHANGED <<card_ref, heapVars, retval, userVars, event>>

\* a variant of vreader_insert_card_swap that leaves the card in place when
\* it is given no card
vreader_insert_card_swap_present(t) ==
    /\ At(t, "vreader_insert_card", "swap")
    /\ LET f == Top(t)
           new == IF f.card = NULL THEN card[f.reader] ELSE f.card
       IN /\ card_ref' = vcard_reference(vcard_free(card_ref, card[f.reader]), new)
          /\ card' = [card EXCEPT ![f.reader] = new]
          /\ lock' = [lock EXCEPT ![f.reader] = 0]
          /\ stack' = Invoke(t, [f EXCEPT !.pc = "ret",
                                          !.released = IF f.card = NULL THEN NULL
                                                       ELSE card[f.reader]],
                             [fn |-> "vreader_queue_card_event", pc |-> "read",
                              reader |-> f.reader, first |-> "type", seen |-> NULL])
    /\ UNCHANGED <<reference_count, id, rstate, private_free_calls, name>>
    /\ UNCHANGED <<heapVars, retval, userVars, event, fault>>

\* vreader_insert_card under the lock: the old card's reference is dropped,
\* reader->card = vcard_reference(card); unlock; vreader_queue_card_event(reader)
vreader_insert_card_swap(t) ==
    /\ At(t, "vreader_insert_card", "swap")
    /\ LET f == Top(t) IN
       /\ card_ref' = vcard_reference(vcard_free(card_ref, card[f.reader]), f.card)
       /\ card' = [card EXCEPT ![f.reader] = f.card]
       /\ lock' = [lock EXCEPT ![f.reader] = 0]
       /\ stack' = Invoke(t, [f EXCEPT !.pc = "ret", !.released = card[f.reader]],
                          [fn |-> "vreader_queue_card_event", pc |-> "read",
                           reader |-> f.reader, first |-> "type", seen |-> NULL])
    /\ UNCHANGED <<reference_count, id, rstate, private_free_calls, name>>
    /\ UNCHANGED <<heapVars, retval, userVars, event, fault>>

\* vreader_insert_card: return VREADER_OK
vreader_insert_card_ret(t) ==
    /\ At(t, "vreader_insert_card", "ret")
    /\ Return(t, [status |-> "VREADER_OK", event |-> retval[t], released |-> Top(t).released])
    /\ UNCHANGED <<readerVars, card_ref, heapVars, userVars, event, fault>>


\* ------------------------------------------------------ registry entries
\* the cells malloc may hand out: any cell freed before, or the first cell
\* never handed out
MallocChoices ==
    LET fresh == {e \in Entries : ~mem[e].used} IN
    {e \in Entries : mem[e].used /\ ~mem[e].alloc}
        \cup (IF fresh = {} THEN {} ELSE {CHOOSE e \in fresh : \A o \in fresh : e <= o})

\* vreader_list_entry_new: malloc, next = prev = NULL, then
\* reader = vreader_reference(reader); qemu_malloc aborts when memory is out
vreader_list_entry_new_alloc(t) ==
    /\ At(t, "vreader_list_entry_new", "alloc")
    /\ LET f == Top(t) IN
       IF MallocChoices = {} \/ mallocs >= MaxMallocs
       THEN /\ fault' = TRUE
            /\ UNCHANGED <<mem, mallocs, stack>>
       ELSE /\ mallocs' = mallocs + 1
            /\ \E e \in MallocChoices :
                  /\ mem' = [mem EXCEPT ![e] = [@ EXCEPT !.next = NULL, !.prev = NULL,
                                                         !.alloc = TRUE, !.used = TRUE]]
                  /\ stack' = Invoke(t, [f EXCEPT !.pc = "set", !.entry = e],
                                     [fn |-> "vreader_reference", pc |-> "lock",
                                      reader |-> f.reader])
            /\ UNCHANGED fault
    /\ UNCHANGED <<readerVars, card_ref, lists, vreader_list_mutex, retval, userVars, event>>

\* vreader_list_entry_new: the counted reference is stored, the entry returned
vreader_list_entry_new_set(t) ==
    /\ At(t, "vreader_list_entry_new", "set")
    /\ LET f == Top(t) IN
       /\ mem' = [mem EXCEPT ![f.entry].reader = retval[t].ptr]
       /\ Return(t, Ptr(f.entry))
    /\ UNCHANGED <<readerVars, card_ref, mallocs, lists, vreader_list_mutex, userVars, event, fault>>

\* vreader_list_entry_delete: NULL is ignored, else vreader_free(entry->reader)
vreader_list_entry_delete_reader(t) ==
    /\ At(t, "vreader_list_entry_delete", "free_reader")
    /\ LET f == Top(t) IN
       IF f.entry = NULL
       THEN Return(t, Ptr(NULL))
       ELSE /\ stack' = Invoke(t, [f EXCEPT !.pc = "free"],
                               [fn |-> "vreader_free", pc |-> "lock",
                                reader |-> mem[f.entry].reader])
            /\ UNCHANGED retval
    /\ UNCHANGED <<readerVars, card_ref, heapVars, userVars, event, fault>>

\* vreader_list_entry_delete: qemu_free(entry)
vreader_list_entry_delete_free(t) ==
    /\ At(t, "vreader_list_entry_delete", "free")
    /\ mem' = [mem EXCEPT ![Top(t).entry].alloc = FALSE]
    /\ Return(t, Ptr(NULL))
    /\ UNCHANGED <<readerVars, card_ref, mallocs, lists, vreader_list_mutex, userVars, event, fault>>

\* vreader_list_get_first
vreader_list_get_first(l) == lists[l].head

\* vreader_list_get_next
vreader_list_get_next(e) == IF e = NULL THEN NULL ELSE mem[e].next

\* vreader_list_get_reader: entry ? vreader_reference(entry->reader) : NULL
vreader_list_get_reader(t) ==
    /\ At(t, "vreader_list_get_reader", "call")
    /\ LET f == Top(t) IN
       stack' = Step(t, [fn |-> "vreader_reference", pc |-> "lock",
                         reader |-> IF f.entry = NULL THEN NULL ELSE mem[f.entry].reader])
    /\ UNCHANGED <<readerVars, card_ref, heapVars, retval, userVars, event, fault>>

\* vreader_queue: the entry is appended at the tail of the list
vreader_queue(m, ls, l, e) ==
    IF e = NULL THEN [mem |-> m, lists |-> ls]
    ELSE LET m1 == [m EXCEPT ![e].next = NULL, ![e].prev = ls[l].tail] IN
         IF ls[l].head # NULL
         THEN [mem |-> [m1 EXCEPT ![ls[l].tail].next = e],
               lists |-> [ls EXCEPT ![l].tail = e]]
         ELSE [mem |-> m1, lists |-> [ls EXCEPT ![l].head = e, ![l].tail = e]]

\* vreader_dequeue: the entry is unlinked from the list
vreader_dequeue(m, ls, l, e) ==
    IF e = NULL THEN [mem |-> m, lists |-> ls]
    ELSE LET m1 == IF m[e].next # NULL /\ m[e].prev # NULL
                   THEN [m EXCEPT ![m[e].prev].next = m[e].next,
                                  ![m[e].next].prev = m[e].prev]
                   ELSE m
             l1 == IF m[e].next = NULL THEN [ls[l] EXCEPT !.tail = m[e].prev]
                   ELSE IF m[e].prev = NULL THEN [ls[l] EXCEPT !.head = m[e].next]
                   ELSE ls[l]
             l2 == IF l1.tail = NULL \/ l1.head = NULL
                   THEN [l1 EXCEPT !.head = NULL, !.tail = NULL]
                   ELSE l1
         IN [mem |-> [m1 EXCEPT ![e].next = NULL, ![e].prev = NULL],
             lists |-> [ls EXCEPT ![l] = l2]]


\* ------------------------------------------------------------ lists
\* vreader_list_delete: every entry is deleted, from the head on; then
\* head = tail = NULL and the list is freed
vreader_list_delete(t) ==
    /\ At(t, "vreader_list_delete", "loop")
    /\ LET f == Top(t) IN
       IF f.cur = NULL
       THEN /\ lists' = [lists EXCEPT ![f.list] = [head |-> NULL, tail |-> NULL, alloc |-> FALSE]]
            /\ Return(t, Ptr(NULL))
       ELSE /\ stack' = Invoke(t, [f EXCEPT !.cur = vreader_list_get_next(f.cur)],
                               [fn |-> "vreader_list_entry_delete", pc |-> "free_reader",
                                entry |-> f.cur])
            /\ UNCHANGED <<lists, retval>>
    /\ UNCHANGED <<readerVars, card_ref, mallocs, mem, vreader_list_mutex, userVars, event, fault>>

\* vreader_list_new, as vreader_copy_list calls it: an empty list
vreader_copy_list_new(t) ==
    /\ At(t, "vreader_copy_list", "new")
    /\ LET f == Top(t)
           free == {l \in SnapLists : ~lists[l].alloc}
       IN IF free = {}
          THEN /\ fault' = TRUE
               /\ UNCHANGED <<lists, stack>>
          ELSE LET nl == CHOOSE l \in free : \A o \in free : l <= o IN
               /\ lists' = [lists EXCEPT ![nl] = [head |-> NULL, tail |-> NULL, alloc |-> TRUE]]
               /\ stack' = Step(t, [f EXCEPT !.pc = "loop", !.new_list = nl,
                                             !.cur = vreader_list_get_first(f.list)])
               /\ UNCHANGED fault
    /\ UNCHANGED <<readerVars, card_ref, mallocs, mem, vreader_list_mutex, retval, userVars, event>>

\* vreader_copy_list, the loop test and reader = vreader_list_get_reader(current_entry)
vreader_copy_list_loop(t) ==
    /\ At(t, "vreader_copy_list", "loop")
    /\ LET f == Top(t) IN
       IF f.cur = NULL
       THEN Return(t, Ptr(f.new_list))
       ELSE /\ stack' = Invoke(t, [f EXCEPT !.pc = "got"],
                               [fn |-> "vreader_list_get_reader", pc |-> "call", entry |-> f.cur])
            /\ UNCHANGED retval
    /\ UNCHANGED <<readerVars, card_ref, heapVars, userVars, event, fault>>

\* vreader_copy_list: new_entry = vreader_list_entry_new(reader)
vreader_copy_list_got(t) ==
    /\ At(t, "vreader_copy_list", "got")
    /\ LET f == Top(t) IN
       stack' = Invoke(t, [f EXCEPT !.pc = "made", !.reader = retval[t].ptr],
                       [fn |-> "vreader_list_entry_new", pc |-> "alloc",
                        reader |-> retval[t].ptr, entry |-> NULL])
    /\ UNCHANGED <<readerVars, card_ref, heapVars, retval, userVars, event, fault>>

\* vreader_copy_list: vreader_free(reader)
vreader_copy_list_made(t) ==
    /\ At(t, "vreader_copy_list", "made")
    /\ LET f == Top(t) IN
       stack' = Invoke(t, [f EXCEPT !.pc = "queue", !.new_entry = retval[t].ptr],
                       [fn |-> "vreader_free", pc |-> "lock", reader |-> f.reader])
    /\ UNCHANGED <<readerVars, card_ref, heapVars, retval, userVars, event, fault>>

\* vreader_copy_list: vreader_queue(new_list, new_entry) and the step to the
\* next entry of the list being copied
vreader_copy_list_queue(t) ==
    /\ At(t, "vreader_copy_list", "queue")
    /\ LET f == Top(t)
           q == vreader_queue(mem, lists, f.new_list, f.new_entry)
       IN /\ mem' = q.mem
          /\ lists' = q.lists
          /\ stack' = Step(t, [f EXCEPT !.pc = "loop", !.cur = q.mem[f.cur].next])
    /\ UNCHANGED <<readerVars, card_ref, mallocs, vreader_list_mutex, retval, userVars, event, fault>>

\* vreader_get_reader_list: vreader_list_lock(); vreader_copy_list(vreader_list)
vreader_get_reader_list_lock(t) ==
    /\ At(t, "vreader_get_reader_list", "lock")
    /\ vreader_list_mutex = 0
    /\ vreader_list_mutex' = t
    /\ stack' = Invoke(t, [Top(t) EXCEPT !.pc = "unlock"],
                       [fn |-> "vreader_copy_list", pc |-> "new", list |-> 0, new_list |-> NULL,
                        cur |-> NULL, reader |-> NULL, new_entry |-> NULL])
    /\ UNCHANGED <<readerVars, card_ref, mallocs, mem, lists, retval, userVars, event, fault>>

\* vreader_get_reader_list: vreader_list_unlock(); return new_reader_list
vreader_get_reader_list_unlock(t) ==
    /\ At(t, "vreader_get_reader_list", "unlock")
    /\ vreader_list_mutex' = 0
    /\ Return(t, [list |-> retval[t].ptr])
    /\ UNCHANGED <<readerVars, card_ref, mallocs, mem, lists, userVars, event, fault>>

\* ----------------------------------------------------------- lookup
\* vreader_get_reader_by_id without its first test: the unassigned id is
\* looked for like any other
vreader_get_reader_by_id_check_scan(t) ==
    /\ At(t, "vreader_get_reader_by_id", "check")
    /\ stack' = Step(t, [Top(t) EXCEPT !.pc = "lock"])
    /\ UNCHANGED <<readerVars, card_ref, heapVars, retval, userVars, event, fault>>

\* vreader_get_reader_by_id: the unassigned id is answered NULL at once
vreader_get_reader_by_id_check(t) ==
    /\ At(t, "vreader_get_reader_by_id", "check")
    /\ LET f == Top(t) IN
       IF f.id = VREADER_ID_UNASSIGNED
       THEN Return(t, [reader |-> NULL])
       ELSE /\ stack' = Step(t, [f EXCEPT !.pc = "lock"])
            /\ UNCHANGED retval
    /\ UNCHANGED <<readerVars, card_ref, heapVars, userVars, event, fault>>

\* vreader_get_reader_by_id: vreader_list_lock(), the scan starts at the head
vreader_get_reader_by_id_lock(t) ==
    /\ At(t, "vreader_get_reader_by_id", "lock")
    /\ vreader_list_mutex = 0
    /\ vreader_list_mutex' = t
    /\ stack' = Step(t, [Top(t) EXCEPT !.pc = "loop", !.cur = vreader_list_get_first(0)])
    /\ UNCHANGED <<readerVars, card_ref, mallocs, mem, lists, retval, userVars, event, fault>>

\* vreader_get_reader_by_id, the loop test and creader = vreader_list_get_reader(...)
vreader_get_reader_by_id_loop(t) ==
    /\ At(t, "vreader_get_reader_by_id", "loop")
    /\ LET f == Top(t) IN
       IF f.cur = NULL
       THEN stack' = Step(t, [f EXCEPT !.pc = "unlock"])
       ELSE stack' = Invoke(t, [f EXCEPT !.pc = "cmp"],
                            [fn |-> "vreader_list_get_reader", pc |-> "call", entry |-> f.cur])
    /\ UNCHANGED <<readerVars, card_ref, heapVars, retval, userVars, event, fault>>

\* the comparison of vreader_get_reader_by_id: creader->id == id
IdMatches(r, wanted) == id[r] = wanted

\* vreader_get_reader_by_id: a match ends the scan with the reference kept,
\* else vreader_free(creader)
vreader_get_reader_by_id_cmp(t) ==
    /\ At(t, "vreader_get_reader_by_id", "cmp")
    /\ LET f == Top(t)
           creader == retval[t].ptr
       IN IF creader = NULL
          THEN /\ fault' = TRUE
               /\ UNCHANGED stack
          ELSE /\ IF IdMatches(creader, f.id)
                  THEN stack' = Step(t, [f EXCEPT !.pc = "unlock", !.reader = creader])
                  ELSE stack' = Invoke(t, [f EXCEPT !.pc = "next"],
                                       [fn |-> "vreader_free", pc |-> "lock", reader |-> creader])
               /\ UNCHANGED fault
    /\ UNCHANGED <<readerVars, card_ref, heapVars, retval, userVars, event>>

\* vreader_get_reader_by_id: current_entry = vreader_list_get_next(current_entry)
vreader_get_reader_by_id_next(t) ==
    /\ At(t, "vreader_get_reader_by_id", "next")
    /\ LET f == Top(t) IN
       stack' = Step(t, [f EXCEPT !.pc = "loop", !.cur = vreader_list_get_next(f.cur)])
    /\ UNCHANGED <<readerVars, card_ref, heapVars, retval, userVars, event, fault>>

\* vreader_get_reader_by_id: vreader_list_unlock(); return reader
vreader_get_reader_by_id_unlock(t) ==
    /\ At(t, "vreader_get_reader_by_id", "unlock")
    /\ vreader_list_mutex' = 0
    /\ Return(t, [reader |-> Top(t).reader])
    /\ UNCHANGED <<readerVars, card_ref, mallocs, mem, lists, userVars, event, fault>>


\* vreader_get_reader_by_name: vreader_list_lock(), the scan starts at the head
vreader_get_reader_by_name_lock(t) ==
    /\ At(t, "vreader_get_reader_by_name", "lock")
    /\ vreader_list_mutex = 0
    /\ vreader_list_mutex' = t
    /\ stack' = Step(t, [Top(t) EXCEPT !.pc = "loop", !.cur = vreader_list_get_first(0)])
    /\ UNCHANGED <<readerVars, card_ref, mallocs, mem, lists, retval, userVars, event, fault>>

\* vreader_get_reader_by_name, the loop test and creader = vreader_list_get_reader(...)
vreader_get_reader_by_name_loop(t) ==
    /\ At(t, "vreader_get_reader_by_name", "loop")
    /\ LET f == Top(t) IN
       IF f.cur = NULL
       THEN stack' = Step(t, [f EXCEPT !.pc = "unlock"])
       ELSE stack' = Invoke(t, [f EXCEPT !.pc = "cmp"],
                            [fn |-> "vreader_list_get_reader", pc |-> "call", entry |-> f.cur])
    /\ UNCHANGED <<readerVars, card_ref, heapVars, retval, userVars, event, fault>>

\* strcmp(a, b): both strings are read; a NULL argument is dereferenced
StrcmpFaults(a, b) == a = NULL \/ b = NULL

\* strcmp(a, b) == 0
StrcmpEqual(a, b) == a = b

\* vreader_get_reader_by_name: strcmp(creader->name, name); a match ends the
\* scan with the reference kept, else vreader_free(creader)
vreader_get_reader_by_name_cmp(t) ==
    /\ At(t, "vreader_get_reader_by_name", "cmp")
    /\ LET f == Top(t)
           creader == retval[t].ptr
       IN IF creader = NULL
          THEN /\ fault' = TRUE
               /\ UNCHANGED stack
          ELSE IF StrcmpFaults(name[creader], f.name)
          THEN /\ fault' = TRUE
               /\ UNCHANGED stack
          ELSE /\ IF StrcmpEqual(name[creader], f.name)
                  THEN stack' = Step(t, [f EXCEPT !.pc = "unlock", !.reader = creader])
                  ELSE stack' = Invoke(t, [f EXCEPT !.pc = "next"],
                                       [fn |-> "vreader_free", pc |-> "lock", reader |-> creader])
               /\ UNCHANGED fault
    /\ UNCHANGED <<readerVars, card_ref, heapVars, retval, userVars, event>>

\* vreader_get_reader_by_name: current_entry = vreader_list_get_next(current_entry)
vreader_get_reader_by_name_next(t) ==
    /\ At(t, "vreader_get_reader_by_name", "next")
    /\ LET f == Top(t) IN
       stack' = Step(t, [f EXCEPT !.pc = "loop", !.cur = vreader_list_get_next(f.cur)])
    /\ UNCHANGED <<readerVars, card_ref, heapVars, retval, userVars, event, fault>>

\* vreader_get_reader_by_name: vreader_list_unlock(); return reader
vreader_get_reader_by_name_unlock(t) ==
    /\ At(t, "vreader_get_reader_by_name", "unlock")
    /\ vreader_list_mutex' = 0
    /\ Return(t, [reader |-> Top(t).reader])
    /\ UNCHANGED <<readerVars, card_ref, mallocs, mem, lists, userVars, event, fault>>

\* -------------------------------------------------------- add and remove
\* the sequence without its first element equal to r
RemoveFirst(seq, r) ==
    LET hits == {i \in 1 .. Len(seq) : seq[i] = r} IN
    IF hits = {} THEN seq
    ELSE LET k == CHOOSE i \in hits : \A j \in hits : i <= j IN
         SubSeq(seq, 1, k - 1) \o SubSeq(seq, k + 1, Len(seq))

\* vreader_add_reader: reader_entry = vreader_list_entry_new(reader)
vreader_add_reader_new(t) ==
    /\ At(t, "vreader_add_reader", "new")
    /\ LET f == Top(t) IN
       stack' = Invoke(t, [f EXCEPT !.pc = "lock"],
                       [fn |-> "vreader_list_entry_new", pc |-> "alloc",
                        reader |-> f.reader, entry |-> NULL])
    /\ UNCHANGED <<readerVars, card_ref, heapVars, retval, userVars, event, fault>>

\* vreader_add_reader: vreader_list_lock()
vreader_add_reader_lock(t) ==
    /\ At(t, "vreader_add_reader", "lock")
    /\ vreader_list_mutex = 0
    /\ vreader_list_mutex' = t
    /\ stack' = Step(t, [Top(t) EXCEPT !.pc = "queue", !.entry = retval[t].ptr])
    /\ UNCHANGED <<readerVars, card_ref, mallocs, mem, lists, retval, userVars, event, fault>>

\* a variant of vreader_add_reader_queue that keeps the registry lock
vreader_add_reader_queue_locked(t) ==
    /\ At(t, "vreader_add_reader", "queue")
    /\ LET f == Top(t)
           q == vreader_queue(mem, lists, 0, f.entry)
       IN /\ mem' = q.mem
          /\ lists' = q.lists
          /\ registered' = Append(registered, f.reader)
          /\ stack' = Step(t, [f EXCEPT !.pc = "event"])
    /\ UNCHANGED <<readerVars, card_ref, mallocs, vreader_list_mutex, retval>>
    /\ UNCHANGED <<pending, last_call, held, owned, event, fault>>

\* vreader_add_reader: vreader_queue(vreader_list, reader_entry); vreader_list_unlock()
vreader_add_reader_queue(t) ==
    /\ At(t, "vreader_add_reader", "queue")
    /\ LET f == Top(t)
           q == vreader_queue(mem, lists, 0, f.entry)
       IN /\ mem' = q.mem
          /\ lists' = q.lists
          /\ registered' = Append(registered, f.reader)
          /\ stack' = Step(t, [f EXCEPT !.pc = "event"])
    /\ vreader_list_mutex' = 0
    /\ UNCHANGED <<readerVars, card_ref, mallocs, retval, pending, last_call, held, owned>>
    /\ UNCHANGED <<event, fault>>

\* vreader_add_reader: vevent_queue_vevent(vevent_new(VEVENT_READER_INSERT, reader, NULL))
vreader_add_reader_event(t) ==
    /\ At(t, "vreader_add_reader", "event")
    /\ event' = [kind |-> "VEVENT_READER_INSERT", reader |-> Top(t).reader, card |-> NULL]
    /\ stack' = Step(t, [Top(t) EXCEPT !.pc = "ret"])
    /\ UNCHANGED <<readerVars, card_ref, heapVars, retval, userVars, fault>>

\* vreader_add_reader: return VREADER_OK
vreader_add_reader_ret(t) ==
    /\ At(t, "vreader_add_reader", "ret")
    /\ Return(t, [status |-> "VREADER_OK"])
    /\ UNCHANGED <<readerVars, card_ref, heapVars, userVars, event, fault>>

\* vreader_remove_reader: vreader_list_lock(), the scan starts at the head
vreader_remove_reader_lock(t) ==
    /\ At(t, "vreader_remove_reader", "lock")
    /\ vreader_list_mutex = 0
    /\ vreader_list_mutex' = t
    /\ stack' = Step(t, [Top(t) EXCEPT !.pc = "loop", !.cur = vreader_list_get_first(0)])
    /\ UNCHANGED <<readerVars, card_ref, mallocs, mem, lists, retval, userVars, event, fault>>

\* vreader_remove_reader: the scan for the entry whose reader is this reader
vreader_remove_reader_loop(t) ==
    /\ At(t, "vreader_remove_reader", "loop")
    /\ LET f == Top(t) IN
       IF f.cur = NULL \/ mem[f.cur].reader = f.reader
       THEN stack' = Step(t, [f EXCEPT !.pc = "dequeue"])
       ELSE stack' = Step(t, [f EXCEPT !.cur = vreader_list_get_next(f.cur)])
    /\ UNCHANGED <<readerVars, card_ref, heapVars, retval, userVars, event, fault>>

\* vreader_remove_reader: vreader_dequeue(vreader_list, current_entry); vreader_list_unlock()
vreader_remove_reader_dequeue(t) ==
    /\ At(t, "vreader_remove_reader", "dequeue")
    /\ LET f == Top(t)
           q == vreader_dequeue(mem, lists, 0, f.cur)
       IN /\ mem' = q.mem
          /\ lists' = q.lists
          /\ registered' = RemoveFirst(registered, f.reader)
          /\ stack' = Invoke(t, [f EXCEPT !.pc = "event"],
                             [fn |-> "vreader_list_entry_delete", pc |-> "free_reader",
                              entry |-> f.cur])
    /\ vreader_list_mutex' = 0
    /\ UNCHANGED <<readerVars, card_ref, mallocs, retval, pending, last_call, held, owned>>
    /\ UNCHANGED <<event, fault>>

\* vreader_remove_reader: the VEVENT_READER_REMOVE event, return VREADER_OK
vreader_remove_reader_event(t) ==
    /\ At(t, "vreader_remove_reader", "event")
    /\ event' = [kind |-> "VEVENT_READER_REMOVE", reader |-> Top(t).reader, card |-> NULL]
    /\ Return(t, [status |-> "VREADER_OK"])
    /\ UNCHANGED <<readerVars, card_ref, heapVars, userVars, fault>>

\* ------------------------------------------------------ freed memory
\* a use of freed memory may go through on the stale contents (the steps
\* above) or stop the process
Trap(t) ==
    /\ ~fault
    /\ stack[t] # <<>>
    /\ DanglingReader(t) \/ DanglingEntry(t)
    /\ fault' = TRUE
    /\ UNCHANGED <<readerVars, card_ref, heapVars, callVars, userVars, event, ub>>


\* ------------------------------------------------------ the callers
\* A caller passes only readers it owns a reference to; every call in
\* progress keeps the reference it was given until it has returned.
InFlight(r) == Cardinality({u \in Threads : pending[u].op # "none" /\ pending[u].reader = r})

\* NULL may be passed by anyone
Holds(r) == IF r = NULL THEN TRUE ELSE held[r] > 0

Idle(t) == ~fault /\ stack[t] = <<>> /\ pending[t].op = "none"

\* a call begins; once freed memory was used nothing is known of the process
\* any more, and no further call is followed
Begin(t, call, frame) ==
    /\ Idle(t)
    /\ ~ub
    /\ UNCHANGED ub
    /\ pending' = [pending EXCEPT ![t] = call]
    /\ stack' = [stack EXCEPT ![t] = << frame >>]

\* the caller's buffer before the call: MaxCap bytes, none of them written
EmptyBuf == [i \in 1 .. MaxCap |-> 0]

\* some thread is inside vreader_new, making reader r
BeingMade(r) ==
    \E u \in Threads :
        /\ stack[u] # << >>
        /\ stack[u][1].fn = "vreader_new"
        /\ stack[u][1].reader = r

\* vreader_new(n, ...): n is a name or NULL
call_vreader_new_named(t, r, n) ==
    /\ rstate[r] = "none"
    /\ ~BeingMade(r)
    /\ Begin(t, [op |-> "vreader_new", reader |-> NULL],
             [fn |-> "vreader_new", pc |-> "new", reader |-> r, name |-> n])
    /\ UNCHANGED <<readerVars, card_ref, heapVars, retval, last_call, held, owned,
                   registered, event, fault>>

\* vreader_new with a name of the reader's own
call_vreader_new(t, r) == call_vreader_new_named(t, r, r)

call_vreader_reference(t, r) ==
    /\ Holds(r)
    /\ IF r = NULL THEN TRUE ELSE held[r] < MaxHeld
    /\ Begin(t, [op |-> "vreader_reference", reader |-> r],
             [fn |-> "vreader_reference", pc |-> "lock", reader |-> r])
    /\ UNCHANGED <<readerVars, card_ref, heapVars, retval, last_call, held, owned,
                   registered, event, fault>>

call_vreader_free(t, r) ==
    /\ IF r = NULL THEN UNCHANGED held
       ELSE /\ held[r] > InFlight(r)
            /\ held' = [held EXCEPT ![r] = @ - 1]
    /\ Begin(t, [op |-> "vreader_free", reader |-> NULL],
             [fn |-> "vreader_free", pc |-> "lock", reader |-> r])
    /\ UNCHANGED <<readerVars, card_ref, heapVars, retval, last_call, owned,
                   registered, event, fault>>

call_vreader_set_id(t, r, i) ==
    /\ Holds(r)
    /\ Begin(t, [op |-> "vreader_set_id", reader |-> r, id |-> i],
             [fn |-> "vreader_set_id", pc |-> "set", reader |-> r, id |-> i])
    /\ UNCHANGED <<readerVars, card_ref, heapVars, retval, last_call, held, owned,
                   registered, event, fault>>

call_vreader_card_is_present(t, r) ==
    /\ Holds(r)
    /\ Begin(t, [op |-> "vreader_card_is_present", reader |-> r],
             [fn |-> "vreader_card_is_present", pc |-> "call", reader |-> r])
    /\ UNCHANGED <<readerVars, card_ref, heapVars, retval, last_call, held, owned,
                   registered, event, fault>>

\* vreader_power_on: vreader_reset(reader, VCARD_POWER_ON, atr, len)
vreader_power_on(t, r, len) ==
    /\ Holds(r)
    /\ Begin(t, [op |-> "vreader_power_on", reader |-> r, len |-> len],
             [fn |-> "vreader_reset", pc |-> "call", reader |-> r, power |-> "VCARD_POWER_ON",
              has_atr |-> TRUE, atr |-> EmptyBuf, len |-> len, card |-> NULL, calls |-> {}])
    /\ UNCHANGED <<readerVars, card_ref, heapVars, retval, last_call, held, owned,
                   registered, event, fault>>

\* vreader_power_off: vreader_reset(reader, VCARD_POWER_OFF, NULL, 0)
vreader_power_off(t, r) ==
    /\ Holds(r)
    /\ Begin(t, [op |-> "vreader_power_off", reader |-> r],
             [fn |-> "vreader_reset", pc |-> "call", reader |-> r, power |-> "VCARD_POWER_OFF",
              has_atr |-> FALSE, atr |-> EmptyBuf, len |-> 0, card |-> NULL, calls |-> {}])
    /\ UNCHANGED <<readerVars, card_ref, heapVars, retval, last_call, held, owned,
                   registered, event, fault>>

\* send is what vcard_apdu_new makes of the send buffer: a command, or no
\* command and the status word of the parse failure; cap is *receive_buf_len
call_vreader_xfr_bytes(t, r, send, cap) ==
    /\ Holds(r)
    /\ Begin(t, [op |-> "vreader_xfr_bytes", reader |-> r, send |-> send, cap |-> cap],
             [fn |-> "vreader_xfr_bytes", pc |-> "call", reader |-> r, send |-> send,
              receive_buf |-> EmptyBuf, receive_buf_len |-> cap, card |-> NULL,
              response |-> << >>, calls |-> {}])
    /\ UNCHANGED <<readerVars, card_ref, heapVars, retval, last_call, held, owned,
                   registered, event, fault>>

call_vreader_insert_card(t, r, c) ==
    /\ Holds(r)
    /\ Begin(t, [op |-> "vreader_insert_card", reader |-> r, card |-> c],
             [fn |-> "vreader_insert_card", pc |-> "lock", reader |-> r, card |-> c,
              released |-> NULL])
    /\ UNCHANGED <<readerVars, card_ref, heapVars, retval, last_call, held, owned,
                   registered, event, fault>>

call_vreader_queue_card_event(t, r) ==
    /\ Holds(r)
    /\ Begin(t, [op |-> "vreader_queue_card_event", reader |-> r],
             [fn |-> "vreader_queue_card_event", pc |-> "read", reader |-> r,
              first |-> "type", seen |-> NULL])
    /\ UNCHANGED <<readerVars, card_ref, heapVars, retval, last_call, held, owned,
                   registered, event, fault>>

\* the calls in progress that are still to malloc their entry
Allocating ==
    Cardinality({u \in Threads :
                    /\ stack[u] # << >>
                    /\ stack[u][1].fn = "vreader_add_reader"
                    /\ Top(u).fn \in {"vreader_add_reader", "vreader_list_entry_new"}
                    /\ Top(u).pc \in {"new", "alloc"}})

call_vreader_add_reader(t, r) ==
    /\ Holds(r)
    /\ mallocs + Allocating < MaxMallocs
    /\ Begin(t, [op |-> "vreader_add_reader", reader |-> r],
             [fn |-> "vreader_add_reader", pc |-> "new", reader |-> r, entry |-> NULL])
    /\ UNCHANGED <<readerVars, card_ref, heapVars, retval, last_call, held, owned,
                   registered, event, fault>>

call_vreader_remove_reader(t, r) ==
    /\ Holds(r)
    /\ Begin(t, [op |-> "vreader_remove_reader", reader |-> r],
             [fn |-> "vreader_remove_reader", pc |-> "lock", reader |-> r, cur |-> NULL])
    /\ UNCHANGED <<readerVars, card_ref, heapVars, retval, last_call, held, owned,
                   registered, event, fault>>

call_vreader_get_reader_by_id(t, i) ==
    /\ \A r \in Readers : held[r] < MaxHeld
    /\ Begin(t, [op |-> "vreader_get_reader_by_id", reader |-> NULL, id |-> i],
             [fn |-> "vreader_get_reader_by_id", pc |-> "check", id |-> i, reader |-> NULL,
              cur |-> NULL])
    /\ UNCHANGED <<readerVars, card_ref, heapVars, retval, last_call, held, owned,
                   registered, event, fault>>

call_vreader_get_reader_by_name(t, n) ==
    /\ \A r \in Readers : held[r] < MaxHeld
    /\ Begin(t, [op |-> "vreader_get_reader_by_name", reader |-> NULL, name |-> n],
             [fn |-> "vreader_get_reader_by_name", pc |-> "lock", name |-> n, reader |-> NULL,
              cur |-> NULL])
    /\ UNCHANGED <<readerVars, card_ref, heapVars, retval, last_call, held, owned,
                   registered, event, fault>>

call_vreader_get_reader_list(t) ==
    /\ \E l \in SnapLists : ~lists[l].alloc
    /\ mallocs + Len(registered) <= MaxMallocs
    /\ Begin(t, [op |-> "vreader_get_reader_list", reader |-> NULL],
             [fn |-> "vreader_get_reader_list", pc |-> "lock"])
    /\ UNCHANGED <<readerVars, card_ref, heapVars, retval, last_call, held, owned,
                   registered, event, fault>>

call_vreader_list_delete(t, l) ==
    /\ l \in owned
    /\ owned' = owned \ {l}
    /\ Begin(t, [op |-> "vreader_list_delete", reader |-> NULL, list |-> l],
             [fn |-> "vreader_list_delete", pc |-> "loop", list |-> l,
              cur |-> vreader_list_get_first(l)])
    /\ UNCHANGED <<readerVars, card_ref, heapVars, retval, last_call, held,
                   registered, event, fault>>

\* the call has returned: the caller owns what it was handed; the call is
\* remembered in last_call where a specification asks for it
Complete(t, remember) ==
    /\ ~fault
    /\ stack[t] = <<>>
    /\ pending[t].op # "none"
    /\ LET p == pending[t]
           v == retval[t]
           got == CASE p.op \in {"vreader_new", "vreader_reference"} -> v.ptr
                    [] p.op \in {"vreader_get_reader_by_id", "vreader_get_reader_by_name"}
                           -> v.reader
                    [] OTHER -> NULL
       IN /\ held' = IF got = NULL THEN held ELSE [held EXCEPT ![got] = @ + 1]
          /\ owned' = IF p.op = "vreader_get_reader_list" THEN owned \cup {v.list} ELSE owned
          /\ last_call' = IF remember THEN [last_call EXCEPT ![t] = p] ELSE last_call
    /\ pending' = [pending EXCEPT ![t] = NoCall]
    /\ retval' = [retval EXCEPT ![t] = Ptr(NULL)]
    /\ UNCHANGED <<readerVars, card_ref, heapVars, stack, registered, event, fault, ub>>

\* ------------------------------------------------------------- Init
\* after vreader_init: an empty vreader_list, no reader yet; each card is
\* referenced once, by the card emulation that made it
Init ==
    /\ reference_count = [r \in Readers |-> 0]
    /\ card = [r \in Readers |-> NULL]
    /\ id = [r \in Readers |-> VREADER_ID_UNASSIGNED]
    /\ name = [r \in Readers |-> NULL]
    /\ lock = [r \in Readers |-> 0]
    /\ rstate = [r \in Readers |-> "none"]
    /\ private_free_calls = [r \in Readers |-> 0]
    /\ card_ref = [c \in Cards |-> 1]
    /\ mem = [e \in Entries |-> FreeCell]
    /\ lists = [l \in {0} \cup SnapLists |-> [head |-> NULL, tail |-> NULL, alloc |-> l = 0]]
    /\ vreader_list_mutex = 0
    /\ mallocs = 0
    /\ stack = [t \in Threads |-> << >>]
    /\ retval = [t \in Threads |-> Ptr(NULL)]
    /\ pending = [t \in Threads |-> NoCall]
    /\ last_call = [t \in Threads |-> NoCall]
    /\ held = [r \in Readers |-> 0]
    /\ owned = {}
    /\ registered = << >>
    /\ event = NoEvent
    /\ fault = FALSE
    /\ ub = FALSE


\* ------------------------------------------------------ specifications
ReaderSteps(t) ==
    \/ vreader_new(t)
    \/ vreader_reference_lock(t)
    \/ vreader_reference_inc(t)
    \/ vreader_free_lock(t)
    \/ vreader_free_dec(t)
    \/ vreader_free_destroy(t)

CardSteps(t) ==
    \/ vreader_get_card_lock(t)
    \/ vreader_get_card_ref(t)
    \/ vreader_card_is_present_call(t)
    \/ vreader_card_is_present_check(t)
    \/ vreader_reset_call(t)
    \/ vreader_reset_check(t)
    \/ vreader_reset_reset(t)
    \/ vreader_reset_free(t)
    \/ vreader_xfr_bytes_call(t)
    \/ vreader_xfr_bytes_check(t)
    \/ vreader_xfr_bytes_parse(t)
    \/ vreader_xfr_bytes_process(t)
    \/ vreader_xfr_bytes_assert(t)
    \/ vreader_xfr_bytes_copy(t)

EventSteps(t) ==
    \/ vreader_queue_card_event_read(t)
    \/ vreader_queue_card_event_emit(t)
    \/ vreader_insert_card_lock(t)
    \/ vreader_insert_card_swap(t)
    \/ vreader_insert_card_ret(t)

EntrySteps(t) ==
    \/ vreader_list_entry_new_alloc(t)
    \/ vreader_list_entry_new_set(t)
    \/ vreader_list_entry_delete_reader(t)
    \/ vreader_list_entry_delete_free(t)

AddRemoveSteps(t) ==
    \/ vreader_add_reader_new(t)
    \/ vreader_add_reader_lock(t)
    \/ vreader_add_reader_queue(t)
    \/ vreader_add_reader_event(t)
    \/ vreader_add_reader_ret(t)
    \/ vreader_remove_reader_lock(t)
    \/ vreader_remove_reader_loop(t)
    \/ vreader_remove_reader_dequeue(t)
    \/ vreader_remove_reader_event(t)

SnapshotSteps(t) ==
    \/ vreader_list_get_reader(t)
    \/ vreader_list_delete(t)
    \/ vreader_copy_list_new(t)
    \/ vreader_copy_list_loop(t)
    \/ vreader_copy_list_got(t)
    \/ vreader_copy_list_made(t)
    \/ vreader_copy_list_queue(t)
    \/ vreader_get_reader_list_lock(t)
    \/ vreader_get_reader_list_unlock(t)

LookupSteps(t) ==
    \/ vreader_set_id(t)
    \/ vreader_list_get_reader(t)
    \/ vreader_get_reader_by_id_check(t)
    \/ vreader_get_reader_by_id_lock(t)
    \/ vreader_get_reader_by_id_loop(t)
    \/ vreader_get_reader_by_id_cmp(t)
    \/ vreader_get_reader_by_id_next(t)
    \/ vreader_get_reader_by_id_unlock(t)

ReaderCalls(t, R) ==
    \/ \E r \in R : call_vreader_new(t, r)
    \/ \E r \in R : call_vreader_free(t, r)

AddRemoveCalls(t, R) ==
    \/ \E r \in R : call_vreader_add_reader(t, r)
    \/ \E r \in R : call_vreader_remove_reader(t, r)

SnapshotCalls(t) ==
    \/ call_vreader_get_reader_list(t)
    \/ \E l \in SnapLists : call_vreader_list_delete(t, l)

LookupCalls(t, R) ==
    \/ \E r \in R, i \in Ids : call_vreader_set_id(t, r, i)
    \/ \E i \in Ids \cup {VREADER_ID_UNASSIGNED} : call_vreader_get_reader_by_id(t, i)

CardCalls(t, R) ==
    \/ \E r \in R : call_vreader_reference(t, r)
    \/ \E r \in R : call_vreader_card_is_present(t, r)
    \/ \E r \in R, len \in 0 .. MaxCap : vreader_power_on(t, r, len)
    \/ \E r \in R : vreader_power_off(t, r)
    \/ \E r \in R, send \in SendBufs, cap \in 0 .. MaxCap : call_vreader_xfr_bytes(t, r, send, cap)

EventCalls(t, R) ==
    \/ \E r \in R, c \in Cards \cup {NULL} : call_vreader_insert_card(t, r, c)
    \/ \E r \in R : call_vreader_queue_card_event(t, r)

\* the registry (add, remove, snapshot) and the readers' life, one thread
Next ==
    \E t \in {1} :
        \/ ReaderCalls(t, Readers)
        \/ AddRemoveCalls(t, Readers)
        \/ SnapshotCalls(t)
        \/ ReaderSteps(t)
        \/ EntrySteps(t)
        \/ AddRemoveSteps(t)
        \/ SnapshotSteps(t)
        \/ Trap(t)
        \/ Complete(t, FALSE)

Spec == Init /\ [][Next]_vars

\* the registry (add, remove) and the lookup by id, one thread
LookupNext ==
    \E t \in {1} :
        \/ ReaderCalls(t, Readers)
        \/ AddRemoveCalls(t, Readers)
        \/ LookupCalls(t, Readers)
        \/ ReaderSteps(t)
        \/ EntrySteps(t)
        \/ AddRemoveSteps(t)
        \/ LookupSteps(t)
        \/ Trap(t)
        \/ Complete(t, FALSE)

LookupSpec == Init /\ [][LookupNext]_vars

\* readers 1 and 2 added to the registry, some of them given an id, and
\* looked up by id, one thread
IdNext ==
    \E t \in {1} :
        \/ ReaderCalls(t, {1, 2})
        \/ \E r \in {1, 2} : call_vreader_add_reader(t, r)
        \/ LookupCalls(t, {1, 2})
        \/ ReaderSteps(t)
        \/ vreader_list_entry_new_alloc(t)
        \/ vreader_list_entry_new_set(t)
        \/ vreader_add_reader_new(t)
        \/ vreader_add_reader_lock(t)
        \/ vreader_add_reader_queue(t)
        \/ vreader_add_reader_event(t)
        \/ vreader_add_reader_ret(t)
        \/ LookupSteps(t)
        \/ Complete(t, FALSE)

IdSpec == Init /\ [][IdNext]_vars

\* every registry operation (add, remove, both lookups, snapshot) on
\* reader 1, one thread
RegistryNext ==
    \E t \in {1} :
        \/ ReaderCalls(t, {1})
        \/ AddRemoveCalls(t, {1})
        \/ SnapshotCalls(t)
        \/ \E i \in {1, VREADER_ID_UNASSIGNED} : call_vreader_get_reader_by_id(t, i)
        \/ \E n \in {1, 2} : call_vreader_get_reader_by_name(t, n)
        \/ ReaderSteps(t)
        \/ EntrySteps(t)
        \/ AddRemoveSteps(t)
        \/ SnapshotSteps(t)
        \/ vreader_get_reader_by_id_check(t)
        \/ vreader_get_reader_by_id_lock(t)
        \/ vreader_get_reader_by_id_loop(t)
        \/ vreader_get_reader_by_id_cmp(t)
        \/ vreader_get_reader_by_id_next(t)
        \/ vreader_get_reader_by_id_unlock(t)
        \/ vreader_get_reader_by_name_lock(t)
        \/ vreader_get_reader_by_name_loop(t)
        \/ vreader_get_reader_by_name_cmp(t)
        \/ vreader_get_reader_by_name_next(t)
        \/ vreader_get_reader_by_name_unlock(t)
        \/ Trap(t)
        \/ Complete(t, FALSE)

RegistrySpec == Init /\ [][RegistryNext]_vars

\* the steps of the calls of FairNext that thread t can take
FairSteps(t) ==
    \/ ReaderSteps(t)
    \/ EntrySteps(t)
    \/ AddRemoveSteps(t)

\* the registry (add, remove) on reader 1, two threads
FairNext ==
    \E t \in Threads :
        \/ ReaderCalls(t, {1})
        \/ AddRemoveCalls(t, {1})
        \/ FairSteps(t)
        \/ Trap(t)
        \/ Complete(t, FALSE)

\* a thread that can go on, or that waits for a lock that is free again and
\* again, does go on (every step changes the stack): the scheduler and the
\* mutexes are fair
FairSpec == Init /\ [][FairNext]_vars /\ \A t \in Threads : SF_stack(FairSteps(t))

\* the card session calls and card insertion on reader 1, two threads
ConcNext ==
    \E t \in Threads :
        \/ call_vreader_new(t, 1)
        \/ \E c \in Cards \cup {NULL} : call_vreader_insert_card(t, 1, c)
        \/ call_vreader_card_is_present(t, 1)
        \/ vreader_power_on(t, 1, MaxCap)
        \/ vreader_power_off(t, 1)
        \/ \E send \in SendBufs : call_vreader_xfr_bytes(t, 1, send, MaxCap)
        \/ vreader_new(t)
        \/ CardSteps(t)
        \/ EventSteps(t)
        \/ Complete(t, FALSE)

ConcSpec == Init /\ [][ConcNext]_vars

NameSteps(t) ==
    \/ vreader_list_get_reader(t)
    \/ vreader_get_reader_by_name_lock(t)
    \/ vreader_get_reader_by_name_loop(t)
    \/ vreader_get_reader_by_name_cmp(t)
    \/ vreader_get_reader_by_name_next(t)
    \/ vreader_get_reader_by_name_unlock(t)

\* readers made with and without a name, added to the registry and looked
\* up by name, one thread
NameNext ==
    \E t \in {1} :
        \/ \E r \in Readers, n \in Names \cup {NULL} : call_vreader_new_named(t, r, n)
        \/ \E r \in Readers : call_vreader_free(t, r)
        \/ \E r \in Readers : call_vreader_add_reader(t, r)
        \/ \E n \in Names : call_vreader_get_reader_by_name(t, n)
        \/ ReaderSteps(t)
        \/ vreader_list_entry_new_alloc(t)
        \/ vreader_list_entry_new_set(t)
        \/ vreader_add_reader_new(t)
        \/ vreader_add_reader_lock(t)
        \/ vreader_add_reader_queue(t)
        \/ vreader_add_reader_event(t)
        \/ vreader_add_reader_ret(t)
        \/ NameSteps(t)
        \/ Complete(t, FALSE)

NameSpec == Init /\ [][NameNext]_vars

\* the card session calls and the card events on one reader, one thread
SessionNext ==
    \E t \in {1} :
        \/ ReaderCalls(t, {1})
        \/ CardCalls(t, {1})
        \/ EventCalls(t, {1})
        \/ ReaderSteps(t)
        \/ CardSteps(t)
        \/ EventSteps(t)
        \/ Complete(t, TRUE)

SessionSpec == Init /\ [][SessionNext]_vars

\* card insertion and removal on one reader, two threads
RaceNext ==
    \E t \in Threads :
        \/ \E r \in {1} : call_vreader_new(t, r)
        \/ \E r \in {1}, c \in Cards \cup {NULL} : call_vreader_insert_card(t, r, c)
        \/ vreader_new(t)
        \/ EventSteps(t)
        \/ Complete(t, FALSE)

RaceSpec == Init /\ [][RaceNext]_vars

\* the registry (add, remove) alone, one thread
AddNext ==
    \E t \in {1} :
        \/ \E r \in Readers : call_vreader_new(t, r)
        \/ AddRemoveCalls(t, Readers)
        \/ ReaderSteps(t)
        \/ EntrySteps(t)
        \/ AddRemoveSteps(t)
        \/ Trap(t)
        \/ Complete(t, FALSE)

AddSpec == Init /\ [][AddNext]_vars

\* the calls that are handed a reader, on reader 1 and on no reader (NULL)
NullNext ==
    \E t \in {1} :
        \/ call_vreader_new(t, 1)
        \/ \E r \in {NULL, 1} : call_vreader_free(t, r)
        \/ \E r \in {NULL, 1}, i \in Ids : call_vreader_set_id(t, r, i)
        \/ \E r \in {NULL, 1}, c \in Cards \cup {NULL} : call_vreader_insert_card(t, r, c)
        \/ CardCalls(t, {NULL, 1})
        \/ vreader_set_id(t)
        \/ ReaderSteps(t)
        \/ CardSteps(t)
        \/ EventSteps(t)
        \/ Complete(t, FALSE)

NullSpec == Init /\ [][NullNext]_vars

\* ------------------------------------------------------ what is observed
\* the readers an iteration with vreader_list_get_next finds from entry e on,
\* fuel entries at most
RECURSIVE ReadersFrom(_, _)
ReadersFrom(e, fuel) ==
    IF e = NULL \/ fuel = 0 THEN << >>
    ELSE << mem[e].reader >> \o ReadersFrom(vreader_list_get_next(e), fuel - 1)

\* the readers an iteration over list l yields, from vreader_list_get_first on
ListReaders(l) == ReadersFrom(vreader_list_get_first(l), MaxEntries)

\* the entries that hold a counted reference to reader r
EntriesOf(r) == {e \in Entries : mem[e].alloc /\ mem[e].reader = r}

\* the holders of reader r: the references callers own and the entries
Holders(r) == held[r] + Cardinality(EntriesOf(r))

\* the API call op of thread t has returned and the caller has its result
Returned(t, op) == ~fault /\ stack[t] = << >> /\ pending[t].op = op

\* no call is in progress
Quiescent == ~fault /\ \A t \in Threads : stack[t] = << >> /\ pending[t].op = "none"

\* the readers in sequence seq
Range(seq) == {seq[i] : i \in 1 .. Len(seq)}

\* ------------------------------------------------------------- claims
\* C1: a snapshot yields exactly the readers added and not since removed, in
\* the order they were added, wherever the removed readers stood in the
\* registry.
RegistryOrder ==
    \A t \in Threads :
        Returned(t, "vreader_get_reader_list") => ListReaders(retval[t].list) = registered

\* C2: with no call in progress, a live reader's reference_count is the number
\* of its holders (references callers own, registry and snapshot entries); a
\* reader is destroyed only with no holder left, and its private data is
\* released exactly once, at its destruction.
RefcountSafety ==
    Quiescent =>
        \A r \in Readers :
            /\ rstate[r] = "live" => reference_count[r] = Holders(r) /\ private_free_calls[r] = 0
            /\ rstate[r] = "freed" => Holders(r) = 0 /\ private_free_calls[r] = 1

\* C3: no step taken while a caller owns a snapshot list changes the sequence
\* of readers the list yields, or destroys a reader the list references.
SnapshotIsolation ==
    [][\A l \in SnapLists :
          (l \in owned /\ l \in owned') =>
              /\ ListReaders(l)' = ListReaders(l)
              /\ \A r \in Range(ListReaders(l)) : rstate'[r] = "live"]_vars

\* C4: a lookup by an id some registered reader was given by vreader_set_id
\* returns that reader, and NULL when no registered reader has the id; the
\* reader returned carries one more counted reference and every other live
\* reader's count is that of its holders.
LookupCorrect ==
    \A t \in Threads :
        Returned(t, "vreader_get_reader_by_id") =>
            LET X == pending[t].id
                got == retval[t].reader
                M == {r \in Range(registered) : X \in Ids /\ id[r] = X}
            IN /\ M = {} => got = NULL
               /\ \A r \in Readers : M = {r} => got = r
               /\ \A r \in Readers :
                     rstate[r] = "live" =>
                         reference_count[r] = Holders(r) + (IF r = got THEN 1 ELSE 0)

\* thread t is inside vreader_add_reader, at label p
InAdd(t, p) ==
    /\ stack[t] # << >>
    /\ Top(t).fn = "vreader_add_reader"
    /\ Top(t).pc = p

\* the step taken hands a new event to the event sink
Emits == event' # event

CardEventCausality ==
    [][\A t \in Threads :
          (/\ stack[t] # << >>
           /\ Top(t).fn = "vreader_queue_card_event"
           /\ Top(t).pc = "emit"
           /\ stack'[t] # stack[t]) =>
              LET r == event'.reader IN
              /\ event'.kind = "VEVENT_CARD_INSERT" =>
                     card'[r] # NULL /\ event'.card = card'[r]
              /\ event'.kind = "VEVENT_CARD_REMOVE" =>
                     card'[r] = NULL /\ event'.card = NULL]_vars

\* C5: vreader_xfr_bytes on a reader with a card, a receive buffer of
\* capacity c and a response of length r, returns VREADER_OK, sets the length
\* to min(c, r) and writes the first min(c, r) bytes of the response; the
\* rest of the buffer is as the caller left it.
TruncationLaw ==
    \A t \in Threads :
        (Returned(t, "vreader_xfr_bytes") /\ card[pending[t].reader] # NULL) =>
            LET v == retval[t]
                c == pending[t].cap
                r == Len(v.response)
                n == IF c < r THEN c ELSE r
            IN /\ v.status = "VREADER_OK"
               /\ v.receive_buf_len = n
               /\ \A i \in 1 .. MaxCap :
                     v.receive_buf[i] = IF i <= n THEN v.response[i] ELSE EmptyBuf[i]

\* C5, the case: a response of the card that is longer than the buffer was cut
TruncationHappens ==
    \E t \in Threads :
        /\ Returned(t, "vreader_xfr_bytes")
        /\ pending[t].send.apdu
        /\ retval[t].status = "VREADER_OK"
        /\ pending[t].cap > 0
        /\ pending[t].cap < Len(retval[t].response)

\* C8: vreader_insert_card(reader, NULL) returns VREADER_OK, emits
\* VEVENT_CARD_REMOVE and leaves the reader without a card; called a second
\* time in a row it does so again and releases no card reference.
InsertAbsentTwice ==
    \A t \in Threads :
        (Returned(t, "vreader_insert_card") /\ pending[t].card = NULL) =>
            LET v == retval[t]
                r == pending[t].reader
                again == /\ last_call[t].op = "vreader_insert_card"
                         /\ last_call[t].reader = r
                         /\ last_call[t].card = NULL
            IN /\ v.status = "VREADER_OK"
               /\ v.event = [kind |-> "VEVENT_CARD_REMOVE", reader |-> r, card |-> NULL]
               /\ event = v.event
               /\ card[r] = NULL
               /\ again => v.released = NULL

\* C8, the case: the second of two calls in a row with no card has returned
InsertedAbsentTwice ==
    \E t \in Threads :
        /\ Returned(t, "vreader_insert_card")
        /\ pending[t].card = NULL
        /\ last_call[t].op = "vreader_insert_card"
        /\ last_call[t].card = NULL
        /\ retval[t].status = "VREADER_OK"

\* C9: on a reader without a card vreader_power_on, vreader_power_off and
\* vreader_xfr_bytes return VREADER_NO_CARD, call nothing of the card layer
\* and leave the caller's buffer and length as they were.
NoCardSession ==
    \A t \in Threads :
        /\ ((Returned(t, "vreader_power_on") \/ Returned(t, "vreader_power_off"))
                /\ card[pending[t].reader] = NULL) =>
              /\ retval[t].status = "VREADER_NO_CARD"
              /\ retval[t].calls = {}
              /\ retval[t].atr = EmptyBuf
              /\ retval[t].len = (IF pending[t].op = "vreader_power_on" THEN pending[t].len ELSE 0)
        /\ (Returned(t, "vreader_xfr_bytes") /\ card[pending[t].reader] = NULL) =>
              /\ retval[t].status = "VREADER_NO_CARD"
              /\ retval[t].calls = {}
              /\ retval[t].receive_buf = EmptyBuf
              /\ retval[t].receive_buf_len = pending[t].cap

\* C9, the case: a transmit with room for an answer returned without a card
NoCardTransmit ==
    \E t \in Threads :
        /\ Returned(t, "vreader_xfr_bytes")
        /\ card[pending[t].reader] = NULL
        /\ pending[t].cap > 0
        /\ retval[t].status = "VREADER_NO_CARD"

\* C10: a send buffer that does not parse never reaches vcard_process_apdu
\* (whose answer could abort the call); the response is made from the status
\* of the parse, the call returns VREADER_OK and the response is cut to the
\* buffer as any other.
MalformedInput ==
    \A t \in Threads :
        /\ (stack[t] # << >> /\ Top(t).fn = "vreader_xfr_bytes" /\ ~Top(t).send.apdu) =>
              Top(t).pc # "process"
        /\ (/\ Returned(t, "vreader_xfr_bytes")
            /\ card[pending[t].reader] # NULL
            /\ ~pending[t].send.apdu) =>
              LET v == retval[t]
                  c == pending[t].cap
                  w == pending[t].send.status
                  n == IF c < 2 THEN c ELSE 2
              IN /\ v.status = "VREADER_OK"
                 /\ "vcard_process_apdu" \notin v.calls
                 /\ v.response = << w \div 256, w % 256 >>
                 /\ v.receive_buf_len = n
                 /\ \A i \in 1 .. MaxCap :
                       v.receive_buf[i] = IF i <= n THEN v.response[i] ELSE EmptyBuf[i]

\* C10, the case: the response made for a send buffer that does not parse was
\* cut to a buffer of one byte
MalformedTruncated ==
    \E t \in Threads :
        /\ Returned(t, "vreader_xfr_bytes")
        /\ ~pending[t].send.apdu
        /\ retval[t].status = "VREADER_OK"
        /\ pending[t].cap = 1

\* the operations that need a reader and answer with a status
StatusOps ==
    {"vreader_set_id", "vreader_card_is_present", "vreader_power_on", "vreader_power_off",
     "vreader_xfr_bytes", "vreader_insert_card"}

\* C11: a call handed no reader (NULL) never stops the process; set_id,
\* card_is_present, power_on, power_off, transmit and insert_card return
\* VREADER_NO_CARD, vreader_reference returns NULL, and vreader_get_id
\* answers the unassigned id.
NullReaderIsStatus ==
    /\ vreader_get_id(NULL) = VREADER_ID_UNASSIGNED
    /\ \A t \in Threads :
          (pending[t].op \in StatusOps \cup {"vreader_reference"} /\ pending[t].reader = NULL) =>
              /\ ~fault
              /\ (Returned(t, pending[t].op) /\ pending[t].op \in StatusOps) =>
                     retval[t].status = "VREADER_NO_CARD"
              /\ Returned(t, "vreader_reference") => retval[t].ptr = NULL

\* thread t is inside vreader_remove_reader, at label p
InRemove(t, p) ==
    /\ stack[t] # << >>
    /\ Top(t).fn = "vreader_remove_reader"
    /\ Top(t).pc = p

\* C12: vreader_remove_reader of a reader that is not registered finds no
\* entry and changes neither the lists nor the entries; of a registered
\* reader it unlinks one allocated entry of that reader, after which the
\* registry yields the readers registered before without the first
\* occurrence of the reader; it returns VREADER_OK with every live reader's
\* count that of its holders.
RemoveEffect ==
    /\ [][\A t \in Threads :
             (InRemove(t, "dequeue") /\ stack'[t] # stack[t]) =>
                 LET r == Top(t).reader
                     e == Top(t).cur
                 IN IF r \notin Range(registered)
                    THEN e = NULL /\ mem' = mem /\ lists' = lists
                    ELSE /\ e # NULL
                         /\ mem[e].alloc
                         /\ mem[e].reader = r
                         /\ ListReaders(0)' = RemoveFirst(registered, r)]_vars
    /\ [](\A t \in Threads :
             Returned(t, "vreader_remove_reader") =>
                 /\ retval[t].status = "VREADER_OK"
                 /\ \A r \in Readers :
                       rstate[r] = "live" => reference_count[r] = Holders(r))

\* the first reader of the sequence named n, NULL when there is none
FirstNamed(seq, n) ==
    LET hits == {i \in 1 .. Len(seq) : name[seq[i]] = n} IN
    IF hits = {} THEN NULL
    ELSE seq[CHOOSE i \in hits : \A j \in hits : i <= j]

\* C13: a lookup by name never stops the process, whatever readers are
\* registered, named or not; it returns the first registered reader of that
\* name, or NULL; the reader returned carries one more counted reference
\* and every other live reader's count is that of its holders.
NameLookupCorrect ==
    \A t \in Threads :
        pending[t].op = "vreader_get_reader_by_name" =>
            /\ ~fault
            /\ Returned(t, "vreader_get_reader_by_name") =>
                  LET got == retval[t].reader IN
                  /\ got = FirstNamed(registered, pending[t].name)
                  /\ \A r \in Readers :
                        rstate[r] = "live" =>
                            reference_count[r] = Holders(r) + (IF r = got THEN 1 ELSE 0)

\* thread t is looking up the unassigned id
LooksUpUnassigned(t) ==
    /\ pending[t].op = "vreader_get_reader_by_id"
    /\ pending[t].id = VREADER_ID_UNASSIGNED

\* C14: a lookup of the unassigned id never gets past its first test: it
\* calls nothing, never holds vreader_list_mutex, and its one step returns
\* NULL and leaves the mutex, the lists, the entries and every reference
\* count as they were.
UnassignedLookup ==
    /\ [](\A t \in Threads :
             (LooksUpUnassigned(t) /\ stack[t] # << >>) =>
                 /\ Len(stack[t]) = 1
                 /\ Top(t).pc = "check"
                 /\ vreader_list_mutex # t)
    /\ [][\A t \in Threads :
             (LooksUpUnassigned(t) /\ stack'[t] # stack[t]) =>
                 /\ stack'[t] = << >>
                 /\ retval'[t] = [reader |-> NULL]
                 /\ vreader_list_mutex' = vreader_list_mutex
                 /\ reference_count' = reference_count
                 /\ mem' = mem
                 /\ lists' = lists]_vars

\* a lookup of the unassigned id has returned NULL while a reader that was
\* never given an id is registered
UnassignedLookupMissed ==
    \E t \in Threads :
        /\ LooksUpUnassigned(t)
        /\ Returned(t, "vreader_get_reader_by_id")
        /\ retval[t].reader = NULL
        /\ \E r \in Range(registered) : id[r] = VREADER_ID_UNASSIGNED

\* the next step of thread t is vreader_list_lock()
RequestsMutex(t) ==
    /\ stack[t] # << >>
    /\ Top(t).pc = "lock"
    /\ Top(t).fn \in {"vreader_add_reader", "vreader_remove_reader", "vreader_get_reader_by_id",
                      "vreader_get_reader_by_name", "vreader_get_reader_list"}

\* thread t holds the lock of some reader
HoldsReaderLock(t) == \E r \in Readers : lock[r] = t

\* thread t is inside one of the API calls fns
Inside(t, fns) == stack[t] # << >> /\ stack[t][1].fn \in fns

EveryCallReturns ==
    \A t \in Threads :
        (pending[t].op # "none") ~>
            (~fault /\ stack[t] = << >> /\ vreader_list_mutex # t /\ ~HoldsReaderLock(t))

\* the next step of thread t is a call into the card: vcard_reset and
\* vcard_get_atr, vcard_apdu_new, vcard_process_apdu
InCardLayer(t) ==
    /\ stack[t] # << >>
    /\ \/ Top(t).fn = "vreader_reset" /\ Top(t).pc = "reset"
       \/ Top(t).fn = "vreader_xfr_bytes" /\ Top(t).pc \in {"parse", "process"}

\* the threads about to call into card c
InCard(c) == {t \in Threads : InCardLayer(t) /\ Top(t).card = c}

\* C17: a thread about to call into the card from vreader_reset or
\* vreader_xfr_bytes holds neither vreader_list_mutex nor any reader's lock;
\* it has a card, and the card's count covers, above the reference of the
\* card's maker, every thread that is about to call into it.
CardOutsideLocks ==
    \A t \in Threads :
        InCardLayer(t) =>
            /\ vreader_list_mutex # t
            /\ ~HoldsReaderLock(t)
            /\ Top(t).card \in Cards
            /\ card_ref[Top(t).card] >= 1 + Cardinality(InCard(Top(t).card))

\* two vreader_xfr_bytes on the same reader are both about to call
\* vcard_process_apdu, and the reader's lock is free
TwoInProcessor ==
    /\ \A t \in Threads :
          /\ stack[t] # << >>
          /\ Top(t).fn = "vreader_xfr_bytes"
          /\ Top(t).pc = "process"
          /\ Top(t).reader = 1
    /\ lock[1] = 0

\* the card thread t holds a reference to that vreader_get_card took for it
\* and that it has not yet handed to vcard_free; NULL when it holds none
TransientCard(t) ==
    IF stack[t] = << >> THEN NULL
    ELSE LET f == Top(t) IN
         CASE f.fn \in {"vreader_card_is_present", "vreader_reset", "vreader_xfr_bytes"}
                  /\ f.pc = "check" -> retval[t].ptr
           [] f.fn = "vreader_reset" /\ f.pc \in {"reset", "free"} -> f.card
           [] f.fn = "vreader_xfr_bytes" /\ f.pc \in {"parse", "process", "copy"} -> f.card
           [] OTHER -> NULL

\* the live readers card c is inserted in
InsertedIn(c) == {r \in Readers : rstate[r] = "live" /\ card[r] = c}

\* the threads that hold a transient reference to card c
TransientHolders(c) == {t \in Threads : TransientCard(t) = c}

\* C18: the count of a card is the reference of the card's maker, one for
\* every reader the card is inserted in and one for every call in progress
\* that took the card with vreader_get_card and has not released it; a call
\* that has returned holds none.
CardRefAccounting ==
    \A c \in Cards :
        card_ref[c] = 1 + Cardinality(InsertedIn(c)) + Cardinality(TransientHolders(c))

\* a card is inserted in reader 1 while both threads hold a transient
\* reference to it
CardSharedInFlight ==
    \E c \in Cards :
        /\ card[1] = c
        /\ TransientHolders(c) = Threads
        /\ card_ref[c] = 4

\* the entries an iteration meets, from entry e on
RECURSIVE EntriesFrom(_, _)
EntriesFrom(e, fuel) ==
    IF e = NULL \/ fuel = 0 THEN << >>
    ELSE << e >> \o EntriesFrom(vreader_list_get_next(e), fuel - 1)

\* the entries an iteration over list l meets, from vreader_list_get_first on
ListEntries(l) == EntriesFrom(vreader_list_get_first(l), MaxEntries)

\* C19: every entry met from the head of vreader_list is allocated and holds
\* a reader that has not been destroyed, a lookup returns NULL or such a
\* reader, and no step of any call has read or written freed memory.
ReachableEntriesLive ==
    /\ \A e \in Range(ListEntries(0)) : mem[e].alloc /\ rstate[mem[e].reader] = "live"
    /\ \A t \in Threads :
          (Returned(t, "vreader_get_reader_by_id") \/ Returned(t, "vreader_get_reader_by_name")) =>
              IF retval[t].reader = NULL THEN TRUE ELSE rstate[retval[t].reader] = "live"
    /\ ~ub

\* C20: whenever vreader_list_mutex is free, vreader_list is a well-formed
\* doubly linked list: head and tail are NULL together, the head has no
\* predecessor and the tail no successor, the successor of every linked
\* entry points back at it, the tail is the last entry met from the head,
\* and the links of the linked entries lead to linked entries only.
ListWellFormed ==
    vreader_list_mutex = 0 =>
        LET l == lists[0]
            linked == ListEntries(0)
        IN /\ (l.head = NULL) <=> (l.tail = NULL)
           /\ l.head # NULL => mem[l.head].prev = NULL
           /\ l.tail # NULL => mem[l.tail].next = NULL
           /\ \A e \in Range(linked) :
                 /\ mem[e].next # NULL => mem[mem[e].next].prev = e
                 /\ mem[e].next \in Range(linked) \cup {NULL}
                 /\ mem[e].prev \in Range(linked) \cup {NULL}
           /\ l.head # NULL => linked[Len(linked)] = l.tail

=============================================================================
